---- MODULE Spec2Model ----
(***************************************************************************)
(* Model of gluonts/model/seq2seq/_mq_dnn_estimator.py: the constructors   *)
(* of MQCNNEstimator and MQRNNEstimator and the class method               *)
(* MQCNNEstimator.derive_auto_fields.                                      *)
(*                                                                         *)
(* Conventions                                                             *)
(*  - An Optional[...] argument is a sequence of length 0 (None) or 1      *)
(*    (the value): None == <<>>, Some(x) == <<x>>.                         *)
(*  - A Python list is a TLA+ sequence.                                    *)
(*  - A quantile level is an integer number of tenths: 0.1 is 1, 1.0 is    *)
(*    10.  The range test 0 <= d <= 1 is therefore 0 <= d <= 10.           *)
(*  - A constructor call is one action.  The constructor's body is the     *)
(*    operator MQCNN_init / MQRNN_init, which returns what the call        *)
(*    leaves behind: the exception raised (if any), the estimator built    *)
(*    (if any), the ordered list of side effects it performed before       *)
(*    returning or raising, the process-wide RNG state and the caller's    *)
(*    argument objects (lists are passed by reference).                    *)
(*  - The encoder, decoder, quantile-output and base-estimator             *)
(*    constructors are defined outside this file; each is modelled as      *)
(*    recording the arguments the call passes and as not raising.          *)
(*  - Arguments the constructors only store or hand on to the base class   *)
(*    (freq, context_length, sampling, distr_output, the feature flags,    *)
(*    cardinality, embedding_dimension, trainer, scaling) are left at      *)
(*    their defaults and not modelled.                                     *)
(*  - The names DistributionOutput and GaussianOutput in the signature of  *)
(*    MQCNNEstimator.__init__ (line 111) are not imported by the file; the *)
(*    model describes the constructor bodies and takes the names to        *)
(*    resolve.                                                             *)
(***************************************************************************)
EXTENDS Integers, Sequences, FiniteSets, TLC

VARIABLES
    pc,      \* "call": the constructor has not run; "done": it ran once;
             \* "done2": it ran a second time on the same argument objects
    args,    \* the caller's argument objects (live: a callee may mutate lists)
    given,   \* the arguments and RNG state as they were before the first call
    rng,     \* process-wide RNG state: last seed given to numpy and to MXNet
    res,     \* what the first constructor call left behind
    res2,    \* what the second constructor call left behind
    auto     \* the mapping returned by derive_auto_fields, if it was called

vars == <<pc, args, given, rng, res, res2, auto>>

---------------------------------------------------------------------------
(* Bounds of the model *)

MaxCnnLen == 3      \* longest channels_seq / dilation_seq / kernel_size_seq
MaxDecLen == 2      \* longest decoder_mlp_dim_seq
MaxQLen == 2        \* longest quantiles list
MaxCats == 2        \* most static categorical features in the statistics

---------------------------------------------------------------------------
(* Python values *)

None == <<>>
Some(x) == <<x>>

SeqsUpTo(S, n) == UNION {[1..k -> S] : k \in 0..n}

Opt(S) == {None} \cup {Some(x) : x \in S}

\* Python's s[-1] is defined only on a non-empty list
Last(s) == s[Len(s)]

\* Python's s[:-1] (the empty list for a list of length 0 or 1)
AllButLast(s) == SubSeq(s, 1, Len(s) - 1)

\* Python's s[1:], used only by a mutant
AllButFirst(s) == SubSeq(s, 2, Len(s))

\* Python truthiness of an Optional[int]: None and 0 are false
Truthy(o) == o # None /\ o[1] # 0

---------------------------------------------------------------------------
(* Exceptions.  A message is its text, given here without the backquotes *)
(* around parameter names, and the values formatted into it.               *)

AssertionError == "AssertionError"
IndexError == "IndexError"

Raised(kind, text, values) ==
    Some([kind |-> kind, text |-> text, values |-> values])

---------------------------------------------------------------------------
(* The validation assertions of the constructors *)

ValidPredictionLength_Mut(n) == n >= 0

ValidPredictionLength(n) == n > 0

ValidDecoderDims(o) == o = None \/ \A i \in 1..Len(o[1]) : o[1][i] > 0

ValidChannels(o) == o = None \/ \A i \in 1..Len(o[1]) : o[1][i] > 0

ValidDilations(o) == o = None \/ \A i \in 1..Len(o[1]) : o[1][i] > 0

ValidKernelSizes_Mut(o) == o = None \/ \A i \in 1..Len(o[1]) : o[1][i] > 0

ValidKernelSizes(o) == o = None \/ \A i \in 1..Len(o[1]) : o[1][i] > 1

ValidQuantiles_Mut(o) ==
    o = None \/ \A i \in 1..Len(o[1]) : 0 < o[1][i] /\ o[1][i] < 10

ValidQuantiles(o) ==
    o = None \/ \A i \in 1..Len(o[1]) : 0 <= o[1][i] /\ o[1][i] <= 10

SameLengths_Mut(c, d, k) == Len(c) = Len(d)

SameLengths(c, d, k) == Len(c) = Len(d) /\ Len(d) = Len(k)

---------------------------------------------------------------------------
(* Defaults *)

DefaultDecoderMlpDimSeq == <<30>>
DefaultChannelsSeq == <<30, 30, 30>>
DefaultDilationSeq == <<1, 3, 5>>
DefaultKernelSizeSeq == <<7, 3, 3>>
DefaultQuantiles == <<1, 2, 3, 4, 5, 6, 7, 8, 9>>

OrDefault_Mut(o, d) == IF o # None /\ o[1] # <<>> THEN o[1] ELSE d

\* x if x is not None else d
OrDefault(o, d) == IF o # None THEN o[1] ELSE d

---------------------------------------------------------------------------
(* Side effects, in the order the constructor performs them *)

NpSeed == "np.random.seed"
MxSeed == "mx.random.seed"
EncoderBuilt == "encoder"
DecoderBuilt == "decoder"
QuantileOutputBuilt == "quantile_output"
BaseInit == "super().__init__"

ArchitectureObjects == {EncoderBuilt, DecoderBuilt, QuantileOutputBuilt}

\* if seed: np.random.seed(seed); mx.random.seed(seed)
SeedRng(seed, r) == IF Truthy(seed) THEN [np |-> seed, mx |-> seed] ELSE r

SeedEvents(seed) == IF Truthy(seed) THEN <<NpSeed, MxSeed>> ELSE <<>>

---------------------------------------------------------------------------
(* Architecture objects: each records the arguments it is constructed with *)

HierarchicalCausalConv1DEncoder(dilation_seq, kernel_size_seq, channels_seq, use_residual) ==
    [ dilation_seq |-> dilation_seq,
      kernel_size_seq |-> kernel_size_seq,
      channels_seq |-> channels_seq,
      use_residual |-> use_residual,
      use_static_feat |-> TRUE,
      use_dynamic_feat |-> TRUE,
      prefix |-> "encoder_" ]

RNNEncoder ==
    [ mode |-> "gru",
      hidden_size |-> 50,
      num_layers |-> 1,
      bidirectional |-> TRUE,
      prefix |-> "encoder_",
      use_static_feat |-> TRUE,
      use_dynamic_feat |-> TRUE ]

\* self.decoder_mlp_dim_seq[-1]
final_dim(seq) == Last(seq)

hidden_dimension_sequence_Mut(seq) == AllButFirst(seq)

\* self.decoder_mlp_dim_seq[:-1]
hidden_dimension_sequence(seq) == AllButLast(seq)

\* A decoder taking its final dimension with seq.pop(): the same decoder,
\* but the list (the caller's own, when one was supplied) loses its last
\* element.
ForkingMLPDecoder_Pop(prediction_length, seq) ==
    [ decoder |-> [ dec_len |-> prediction_length,
                    final_dim |-> Last(seq),
                    hidden_dimension_sequence |-> AllButLast(seq),
                    prefix |-> "decoder_" ],
      seq |-> AllButLast(seq) ]

\* ForkingMLPDecoder(dec_len=..., final_dim=..., hidden_dimension_sequence=...)
\* on a non-empty list.  Indexing and slicing leave the list as it was.
ForkingMLPDecoder(prediction_length, seq) ==
    [ decoder |-> [ dec_len |-> prediction_length,
                    final_dim |-> final_dim(seq),
                    hidden_dimension_sequence |-> hidden_dimension_sequence(seq),
                    prefix |-> "decoder_" ],
      seq |-> seq ]

QuantileOutput(quantiles) == [quantiles |-> quantiles]

---------------------------------------------------------------------------
(* What a constructor call leaves behind *)

Fail(kind, text, values, events, r, a) ==
    [ raised |-> Raised(kind, text, values),
      self |-> None,
      events |-> events,
      rng |-> r,
      args |-> a ]

Return(self, events, r, a) ==
    [ raised |-> None,
      self |-> Some(self),
      events |-> events,
      rng |-> r,
      args |-> a ]

\* The caller's decoder_mlp_dim_seq object after the call: self holds the
\* caller's list itself when one was supplied, a fresh [30] otherwise.
ArgsAfter(a, seq) ==
    IF a.decoder_mlp_dim_seq # None
    THEN [a EXCEPT !.decoder_mlp_dim_seq = Some(seq)]
    ELSE a

---------------------------------------------------------------------------
(* MQCNNEstimator.__init__ *)

MQCNN_init(a, r) ==
    IF ~ValidPredictionLength(a.prediction_length)
    THEN Fail(AssertionError, "Invalid prediction length: {prediction_length}.",
              <<a.prediction_length>>, <<>>, r, a)
    ELSE IF ~ValidDecoderDims(a.decoder_mlp_dim_seq)
    THEN Fail(AssertionError,
              "Elements of mlp_hidden_dimension_seq should be > 0",
              <<>>, <<>>, r, a)
    ELSE IF ~ValidChannels(a.channels_seq)
    THEN Fail(AssertionError, "Elements of channels_seq should be > 0",
              <<>>, <<>>, r, a)
    ELSE IF ~ValidDilations(a.dilation_seq)
    THEN Fail(AssertionError, "Elements of dilation_seq should be > 0",
              <<>>, <<>>, r, a)
    ELSE IF ~ValidKernelSizes(a.kernel_size_seq)
    THEN Fail(AssertionError, "Elements of kernel_size_seq should be > 0",
              <<>>, <<>>, r, a)
    ELSE IF ~ValidQuantiles(a.quantiles)
    THEN Fail(AssertionError,
              "Elements of quantiles should be >= 0 and <= 1",
              <<>>, <<>>, r, a)
    ELSE
    LET decoder_mlp_dim_seq ==
            OrDefault(a.decoder_mlp_dim_seq, DefaultDecoderMlpDimSeq)
        channels_seq == OrDefault(a.channels_seq, DefaultChannelsSeq)
        dilation_seq == OrDefault(a.dilation_seq, DefaultDilationSeq)
        kernel_size_seq == OrDefault(a.kernel_size_seq, DefaultKernelSizeSeq)
        quantiles == OrDefault(a.quantiles, DefaultQuantiles)
    IN
    IF ~SameLengths(channels_seq, dilation_seq, kernel_size_seq)
    THEN Fail(AssertionError,
              "mismatch CNN configurations: {} vs. {} vs. {}",
              <<Len(channels_seq), Len(dilation_seq), Len(kernel_size_seq)>>,
              <<>>, r, a)
    ELSE
    LET r1 == SeedRng(a.seed, r)
        ev1 == SeedEvents(a.seed)
        encoder == HierarchicalCausalConv1DEncoder(
                       dilation_seq, kernel_size_seq, channels_seq,
                       a.use_residual)
        ev2 == Append(ev1, EncoderBuilt)
    IN
    IF decoder_mlp_dim_seq = <<>>
    THEN Fail(IndexError, "list index out of range", <<>>, ev2, r1, a)
    ELSE
    LET d == ForkingMLPDecoder(a.prediction_length, decoder_mlp_dim_seq)
        quantile_output == QuantileOutput(quantiles)
        ev3 == ev2 \o <<DecoderBuilt, QuantileOutputBuilt, BaseInit>>
    IN
    Return([ variant |-> "cnn",
             decoder_mlp_dim_seq |-> d.seq,
             channels_seq |-> channels_seq,
             dilation_seq |-> dilation_seq,
             kernel_size_seq |-> kernel_size_seq,
             quantiles |-> quantiles,
             encoder |-> encoder,
             decoder |-> d.decoder,
             quantile_output |-> quantile_output,
             prediction_length |-> a.prediction_length ],
           ev3, r1, ArgsAfter(a, d.seq))

---------------------------------------------------------------------------
(* MQRNNEstimator.__init__ *)

MQRNN_init(a, r) ==
    IF ~ValidPredictionLength(a.prediction_length)
    THEN Fail(AssertionError, "Invalid prediction length: {prediction_length}.",
              <<a.prediction_length>>, <<>>, r, a)
    ELSE IF ~ValidDecoderDims(a.decoder_mlp_dim_seq)
    THEN Fail(AssertionError,
              "Elements of mlp_hidden_dimension_seq should be > 0",
              <<>>, <<>>, r, a)
    ELSE IF ~ValidQuantiles(a.quantiles)
    THEN Fail(AssertionError,
              "Elements of quantiles should be >= 0 and <= 1",
              <<>>, <<>>, r, a)
    ELSE
    LET decoder_mlp_dim_seq ==
            OrDefault(a.decoder_mlp_dim_seq, DefaultDecoderMlpDimSeq)
        quantiles == OrDefault(a.quantiles, DefaultQuantiles)
        encoder == RNNEncoder
        ev1 == <<EncoderBuilt>>
    IN
    IF decoder_mlp_dim_seq = <<>>
    THEN Fail(IndexError, "list index out of range", <<>>, ev1, r, a)
    ELSE
    LET d == ForkingMLPDecoder(a.prediction_length, decoder_mlp_dim_seq)
        quantile_output == QuantileOutput(quantiles)
        ev2 == ev1 \o <<DecoderBuilt, QuantileOutputBuilt, BaseInit>>
    IN
    Return([ variant |-> "rnn",
             decoder_mlp_dim_seq |-> d.seq,
             quantiles |-> quantiles,
             encoder |-> encoder,
             decoder |-> d.decoder,
             quantile_output |-> quantile_output,
             prediction_length |-> a.prediction_length ],
           ev2, r, ArgsAfter(a, d.seq))

Construct(a, r) ==
    IF a.variant = "cnn" THEN MQCNN_init(a, r) ELSE MQRNN_init(a, r)

---------------------------------------------------------------------------
(* MQCNNEstimator.derive_auto_fields, on the statistics that               *)
(* calculate_dataset_statistics(train_iter) returns: the number of dynamic *)
(* real features and, per static categorical feature, the set of values    *)
(* observed.                                                               *)

derive_auto_fields_Mut(stats) ==
    [ use_feat_dynamic_real |-> stats.num_feat_dynamic_real > 0,
      use_feat_static_cat |-> stats.feat_static_cat # <<>>,
      cardinality |-> [i \in 1..Len(stats.feat_static_cat) |->
                          Len(stats.feat_static_cat)] ]

derive_auto_fields(stats) ==
    [ use_feat_dynamic_real |-> stats.num_feat_dynamic_real > 0,
      use_feat_static_cat |-> stats.feat_static_cat # <<>>,
      cardinality |-> [i \in 1..Len(stats.feat_static_cat) |->
                          Cardinality(stats.feat_static_cat[i])] ]

---------------------------------------------------------------------------
(* Inputs *)

Args(variant, prediction_length, seed, decoder_mlp_dim_seq, channels_seq, dilation_seq, kernel_size_seq, use_residual, quantiles) ==
    [ variant |-> variant,
      prediction_length |-> prediction_length,
      seed |-> seed,
      decoder_mlp_dim_seq |-> decoder_mlp_dim_seq,
      channels_seq |-> channels_seq,
      dilation_seq |-> dilation_seq,
      kernel_size_seq |-> kernel_size_seq,
      use_residual |-> use_residual,
      quantiles |-> quantiles ]

\* MQRNNEstimator takes no seed, CNN sequences or residual flag
RnnArgs(prediction_length, decoder_mlp_dim_seq, quantiles) ==
    Args("rnn", prediction_length, None, decoder_mlp_dim_seq, None, None, None,
         TRUE, quantiles)

PredictionLengths == {-1, 0, 1, 12}
Seeds == {None, Some(0), Some(42)}
ChannelValues == {0, 30}
DilationValues == {0, 1}
KernelValues == {1, 3}
DecoderValues == {0, 20, 30}
QuantileValues == {-1, 0, 5, 10, 11}

CnnPresets ==
    { <<None, None, None>>,
      <<Some(<<30>>), Some(<<1>>), Some(<<3>>)>>,
      <<Some(<<30, 30>>), None, None>>,
      <<None, None, Some(<<1, 3, 3>>)>> }

\* CNN constructions sweeping the three CNN sequences, the rest omitted
ArgsCnnSweep(a) ==
    \E c \in Opt(SeqsUpTo(ChannelValues, MaxCnnLen)),
       d \in Opt(SeqsUpTo(DilationValues, MaxCnnLen)),
       k \in Opt(SeqsUpTo(KernelValues, MaxCnnLen)) :
        a = Args("cnn", 12, None, None, c, d, k, TRUE, None)

\* Constructions of both variants sweeping prediction length, decoder
\* dimensions and quantiles
ArgsDecoderSweep(a) ==
    \E n \in PredictionLengths,
       m \in Opt(SeqsUpTo(DecoderValues, MaxDecLen)),
       q \in Opt(SeqsUpTo(QuantileValues, MaxQLen)) :
        \/ a = Args("cnn", n, None, m, None, None, None, TRUE, q)
        \/ a = RnnArgs(n, m, q)

\* CNN constructions sweeping the seed and the residual flag against valid
\* and invalid values of the other arguments
ArgsSeedSweep(a) ==
    \E n \in {0, 12},
       s \in Seeds,
       m \in {None, Some(<<>>), Some(<<0>>), Some(<<30>>)},
       p \in CnnPresets,
       u \in BOOLEAN,
       q \in {None, Some(<<5>>), Some(<<11>>)} :
        a = Args("cnn", n, s, m, p[1], p[2], p[3], u, q)

ArgSpace(a) == ArgsCnnSweep(a) \/ ArgsDecoderSweep(a) \/ ArgsSeedSweep(a)

\* Constructions next to which derive_auto_fields is called
ArgsAuto(a) ==
    \/ \E n \in {0, 12}, s \in {None, Some(42)} :
          a = Args("cnn", n, s, None, None, None, None, TRUE, None)
    \/ \E n \in {0, 12} : a = RnnArgs(n, None, None)

\* The process may or may not have seeded its generators before the call
RngStates ==
    { [np |-> None, mx |-> None],
      [np |-> Some(7), mx |-> None],
      [np |-> Some(7), mx |-> Some(7)] }

CatSets == { {0}, {3, 7}, 0..4, 0..11 }

StatsSpace ==
    [ num_feat_dynamic_real : 0..2,
      feat_static_cat : SeqsUpTo(CatSets, MaxCats) ]

---------------------------------------------------------------------------
(* The state machine *)

NotCalled == None

\* Before the call: nothing has run yet
NothingCalled ==
    /\ pc = "call"
    /\ rng \in RngStates
    /\ given = [args |-> args, rng |-> rng]
    /\ res = NotCalled
    /\ res2 = NotCalled
    /\ auto = NotCalled

Init == ArgSpace(args) /\ NothingCalled

InitAuto == ArgsAuto(args) /\ NothingCalled

\* One constructor call: the first ("call") or the second, on the same
\* argument objects in the process state the first one left ("done")
Called(out) ==
    /\ rng' = out.rng
    /\ args' = out.args
    /\ IF pc = "call"
       THEN pc' = "done" /\ res' = out /\ res2' = res2
       ELSE pc' = "done2" /\ res2' = out /\ res' = res
    /\ UNCHANGED <<given, auto>>

ConstructCNN ==
    /\ pc \in {"call", "done"}
    /\ args.variant = "cnn"
    /\ Called(MQCNN_init(args, rng))

ConstructRNN ==
    /\ pc \in {"call", "done"}
    /\ args.variant = "rnn"
    /\ Called(MQRNN_init(args, rng))

\* MQCNNEstimator.derive_auto_fields(train_iter), called at most once
DeriveAutoFields ==
    /\ auto = NotCalled
    /\ \E stats \in StatsSpace :
         auto' = Some([stats |-> stats, fields |-> derive_auto_fields(stats)])
    /\ UNCHANGED <<pc, args, given, rng, res, res2>>

Next == ConstructCNN \/ ConstructRNN

NextAuto == ConstructCNN \/ ConstructRNN \/ DeriveAutoFields

Spec == Init /\ [][Next]_vars

SpecAuto == InitAuto /\ [][NextAuto]_vars

---------------------------------------------------------------------------
(* Vocabulary of the properties *)

\* The specification's ConfigurationError is the failure of one of the
\* constructor's assertions.
ConfigurationError == AssertionError

Ok(o) == o.raised = None
Failed(o) == o.raised # None
Error(o) == o.raised[1]
Estimator(o) == o.self[1]

IsCnn == given.args.variant = "cnn"

\* The length of a CNN sequence after an omitted one has been replaced by
\* its three-element default
EffectiveLen(o) == IF o = None THEN 3 ELSE Len(o[1])

AllGreater(o, n) == o = None \/ \A i \in 1..Len(o[1]) : o[1][i] > n

CnnSeqsOmitted ==
    /\ given.args.channels_seq = None
    /\ given.args.dilation_seq = None
    /\ given.args.kernel_size_seq = None

Before(events, early, late) ==
    /\ \E i \in 1..Len(events) : events[i] = early
    /\ \A i, j \in 1..Len(events) :
          events[i] = early /\ events[j] \in late => i < j

---------------------------------------------------------------------------
(* Properties *)

\* C1: every failing construction fails with a ConfigurationError raised
\* before any architecture object (encoder, decoder, quantile output) is
\* built.
C1_FailFast ==
    pc # "call" /\ Failed(res) =>
        /\ Error(res).kind = ConfigurationError
        /\ \A i \in 1..Len(res.events) : res.events[i] \notin ArchitectureObjects

\* C2: an MQCNNEstimator construction fails whenever the channel, dilation
\* and kernel-size sequences (an omitted one counting as its three-element
\* default) differ in length, and succeeds when they agree in length, their
\* elements are valid, prediction_length > 0 and the decoder dimensions and
\* quantiles are omitted.
C2_CnnLengthAgreement ==
    pc # "call" /\ IsCnn =>
        LET c == EffectiveLen(given.args.channels_seq)
            d == EffectiveLen(given.args.dilation_seq)
            k == EffectiveLen(given.args.kernel_size_seq)
        IN /\ ~(c = d /\ d = k) => Failed(res)
           /\ ( /\ c = d /\ d = k
                /\ AllGreater(given.args.channels_seq, 0)
                /\ AllGreater(given.args.dilation_seq, 0)
                /\ AllGreater(given.args.kernel_size_seq, 1)
                /\ given.args.prediction_length > 0
                /\ given.args.decoder_mlp_dim_seq = None
                /\ given.args.quantiles = None ) => Ok(res)

C2_Witness ==
    /\ pc = "done" /\ IsCnn
    /\ given.args.channels_seq # None /\ given.args.dilation_seq # None
    /\ EffectiveLen(given.args.channels_seq) = 3
    /\ EffectiveLen(given.args.dilation_seq) = 2
    /\ Failed(res)
    /\ Error(res).text = "mismatch CNN configurations: {} vs. {} vs. {}"
    /\ Error(res).values = <<3, 2, 3>>

\* C3: a successful MQCNNEstimator construction given a seed (any integer)
\* leaves that seed set on both numpy's and MXNet's generator, both set
\* before the encoder, the decoder, the quantile output or the base
\* estimator is constructed; given no seed it leaves the RNG state as it was.
C3_SeedPropagation ==
    pc = "done" /\ IsCnn /\ Ok(res) =>
        /\ given.args.seed # None =>
              /\ rng.np = given.args.seed
              /\ rng.mx = given.args.seed
              /\ Before(res.events, NpSeed, ArchitectureObjects \cup {BaseInit})
              /\ Before(res.events, MxSeed, ArchitectureObjects \cup {BaseInit})
        /\ given.args.seed = None => rng = given.rng

\* C4: for both estimators, a construction fails when some quantile lies
\* below 0 or above 1, and succeeds when all quantiles lie in [0, 1],
\* prediction_length > 0 and the other sequences are omitted.
C4_QuantileRange ==
    pc # "call" /\ given.args.quantiles # None =>
        LET q == given.args.quantiles[1]
        IN /\ (\E i \in 1..Len(q) : q[i] < 0 \/ q[i] > 10) => Failed(res)
           /\ ( /\ \A i \in 1..Len(q) : 0 <= q[i] /\ q[i] <= 10
                /\ given.args.prediction_length > 0
                /\ given.args.decoder_mlp_dim_seq = None
                /\ CnnSeqsOmitted ) => Ok(res)

C4_Witness ==
    /\ pc = "done" /\ Ok(res)
    /\ given.args.quantiles = Some(<<0, 10>>)
    /\ Estimator(res).quantile_output.quantiles = <<0, 10>>

\* C5: for both estimators, a construction with prediction_length <= 0
\* fails with a ConfigurationError about the prediction length, and one with
\* prediction_length > 0 and every other argument at its default succeeds.
C5_PredictionLength ==
    pc # "call" =>
        /\ given.args.prediction_length <= 0 =>
              /\ Failed(res)
              /\ Error(res).kind = ConfigurationError
              /\ Error(res).text =
                    "Invalid prediction length: {prediction_length}."
              /\ Error(res).values = <<given.args.prediction_length>>
        /\ ( /\ given.args.prediction_length > 0
             /\ given.args.seed = None
             /\ given.args.decoder_mlp_dim_seq = None
             /\ given.args.quantiles = None
             /\ given.args.use_residual
             /\ CnnSeqsOmitted ) => Ok(res)

C5_Witness ==
    /\ pc = "done"
    /\ given.args.prediction_length = 0
    /\ Failed(res)
    /\ res.events = <<>>

C7_DefaultPopulation ==
    pc # "call" /\ Ok(res) =>
        LET e == Estimator(res)
            a == given.args
            Populated(o, stored, default) ==
                /\ o = None => stored = default
                /\ o # None => stored = o[1]
        IN /\ Populated(a.quantiles, e.quantiles, <<1, 2, 3, 4, 5, 6, 7, 8, 9>>)
           /\ Populated(a.decoder_mlp_dim_seq, e.decoder_mlp_dim_seq, <<30>>)
           /\ IsCnn =>
                 /\ Populated(a.channels_seq, e.channels_seq, <<30, 30, 30>>)
                 /\ Populated(a.dilation_seq, e.dilation_seq, <<1, 3, 5>>)
                 /\ Populated(a.kernel_size_seq, e.kernel_size_seq, <<7, 3, 3>>)

C7_Witness ==
    /\ pc = "done" /\ IsCnn /\ Ok(res)
    /\ given.args.quantiles = None
    /\ given.args.dilation_seq = None
    /\ given.args.channels_seq = Some(<<30, 30, 30>>)
    /\ given.args.kernel_size_seq = Some(<<3, 3, 3>>)
    /\ Estimator(res).encoder.dilation_seq = <<1, 3, 5>>
    /\ Estimator(res).encoder.kernel_size_seq = <<3, 3, 3>>

\* C8: derive_auto_fields returns use_feat_dynamic_real true exactly when
\* the statistics count more than zero dynamic real features,
\* use_feat_static_cat true exactly when there is a static categorical
\* feature, and one cardinality per such feature, its number of distinct
\* values (no dynamic real features and features of 5 and 12 values give
\* false, true, [5, 12]); and the call changes no estimator or process state.
C8_AutoFieldsState ==
    auto # NotCalled =>
        LET s == auto[1].stats
            f == auto[1].fields
        IN /\ f.use_feat_dynamic_real <=> s.num_feat_dynamic_real > 0
           /\ f.use_feat_static_cat <=> Len(s.feat_static_cat) > 0
           /\ Len(f.cardinality) = Len(s.feat_static_cat)
           /\ \A i \in 1..Len(s.feat_static_cat) :
                 f.cardinality[i] = Cardinality(s.feat_static_cat[i])
           /\ s = [num_feat_dynamic_real |-> 0,
                   feat_static_cat |-> <<0..4, 0..11>>] =>
                 f = [use_feat_dynamic_real |-> FALSE,
                      use_feat_static_cat |-> TRUE,
                      cardinality |-> <<5, 12>>]

C8_AutoFields ==
    /\ []C8_AutoFieldsState
    /\ [][auto' # auto => UNCHANGED <<pc, args, given, rng, res, res2>>]_vars

C8_Witness ==
    /\ pc = "done" /\ Ok(res)
    /\ auto # NotCalled
    /\ auto[1].stats.num_feat_dynamic_real = 0
    /\ auto[1].fields.cardinality = <<5, 12>>
    /\ auto[1].fields.use_feat_static_cat
    /\ ~auto[1].fields.use_feat_dynamic_real

====
